---- MODULE Spec2Model ----
(***************************************************************************)
(* A model of the dependency-closure traversal and ordering engine of      *)
(* `dependence` (src/dependence/utilities.py, src/dependence/freeze.py).   *)
(*                                                                         *)
(* Strings are sequences of ASCII codes, so that lower(), normalize_name,  *)
(* the parsing of a requirement string and the lexicographic comparison    *)
(* that sorted() performs are computed as the code computes them.          *)
(* Optional[int] is a sequence: None is <<>>, the integer n is <<n>>.      *)
(***************************************************************************)
EXTENDS Integers, Sequences, FiniteSets, TLC

VARIABLES
    installed,  \* get_installed_distributions(): normalized name -> record
    pc,         \* "idle" before the call, "done" after it returned, "raised"
                \* after it raised, "hang" when it never returns
    call,       \* the entry point called and its arguments
    result,     \* what the call returned
    index,      \* what `pip install` does for each name that is not installed
    log         \* the registry lookups and installs of the call, in order

vars == <<installed, pc, call, result, index, log>>

(***************************************************************************)
(* Bounds of the model.                                                    *)
(***************************************************************************)
\* The most requirement edges a registry of the model holds.
MaxEdges == 4
\* The largest integer given as a depth argument.
MaxDepth == 4
\* The deepest nesting of calls the interpreter allows (sys.getrecursionlimit(),
\* 1000 by default), scaled to the registries of the model.
RecursionLimit == 8

None == <<>>
Some(n) == <<n>>

(***************************************************************************)
(* Characters and strings.                                                 *)
(***************************************************************************)
IsUpper(c) == c >= 65 /\ c <= 90
IsAlnum(c) == (c >= 48 /\ c <= 57) \/ (c >= 65 /\ c <= 90) \/ (c >= 97 /\ c <= 122)
\* A character of a PEP 508 name: letters, digits, "-", "_", "."
IsNameChar(c) == IsAlnum(c) \/ c = 45 \/ c = 95 \/ c = 46

LowerChar(c) == IF IsUpper(c) THEN c + 32 ELSE c
\* str.lower()
lower(s) == [i \in 1..Len(s) |-> LowerChar(s[i])]

\* s < t in Python's comparison of str: lexicographic by code point
RECURSIVE StrLess(_, _)
StrLess(s, t) ==
    IF t = <<>> THEN FALSE
    ELSE IF s = <<>> THEN TRUE
    ELSE IF Head(s) # Head(t) THEN Head(s) < Head(t)
    ELSE StrLess(Tail(s), Tail(t))

\* normalize_name: canonicalize_name() turns every run of "-", "_", "." into
\* "-" and lowercases; _UNSAFE_CHARACTERS_PATTERN then turns every run of
\* characters other than letters, digits and "." into "-". No "." survives the
\* first step, so every maximal run of non-alphanumerics becomes one "-".
RECURSIVE NormalizeFrom(_, _)
NormalizeFrom(s, i) ==
    IF i > Len(s) THEN <<>>
    ELSE IF IsAlnum(s[i]) THEN <<LowerChar(s[i])>> \o NormalizeFrom(s, i + 1)
    ELSE IF i > 1 /\ ~IsAlnum(s[i - 1]) THEN NormalizeFrom(s, i + 1)
    ELSE <<45>> \o NormalizeFrom(s, i + 1)

normalize_name(name) == NormalizeFrom(name, 1)

(***************************************************************************)
(* packaging.requirements.Requirement(requirement_string): the name is the *)
(* leading run of name characters, the extras are the names between "["    *)
(* and "]" (one character each in this model), the rest is the version     *)
(* clause.  A requirement is [name, extras, marker]; the marker of a       *)
(* requirement string given by the caller is None.                         *)
(***************************************************************************)
RECURSIVE NameEnd(_, _)
NameEnd(s, i) ==
    IF i <= Len(s) /\ IsNameChar(s[i]) THEN NameEnd(s, i + 1) ELSE i - 1

RECURSIVE ExtrasFrom(_, _)
ExtrasFrom(s, i) ==
    IF i > Len(s) \/ s[i] = 93 THEN {}
    ELSE IF s[i] = 44 \/ s[i] = 32 THEN ExtrasFrom(s, i + 1)
    ELSE {<<s[i]>>} \cup ExtrasFrom(s, i + 1)

get_requirement(requirement_string) ==
    LET e == NameEnd(requirement_string, 1)
    IN [name |-> SubSeq(requirement_string, 1, e),
        extras |-> IF e < Len(requirement_string) /\ requirement_string[e + 1] = 91
                   THEN ExtrasFrom(requirement_string, e + 2)
                   ELSE {},
        marker |-> None]

get_requirement_distribution_name(requirement) == normalize_name(requirement.name)

get_requirement_string_distribution_name(requirement_string) ==
    get_requirement_distribution_name(get_requirement(requirement_string))

_get_requirement_name(requirement) == normalize_name(requirement.name)

(***************************************************************************)
(* The registry.  A distribution is [Name, version, requires]: the         *)
(* metadata's Name as published, its version, and its requirements, each a *)
(* [name, extras, marker] with marker None or the extra that guards it.    *)
(***************************************************************************)
\* "a" 1, "B" 2, "a-c" 3, "d" 4
Distributions ==
    { [Name |-> <<97>>, version |-> <<49>>],
      [Name |-> <<66>>, version |-> <<50>>],
      [Name |-> <<97, 45, 99>>, version |-> <<51>>],
      [Name |-> <<100>>, version |-> <<52>> ] }

DistributionNames == {normalize_name(d.Name) : d \in Distributions}

DistributionOf(name) == CHOOSE d \in Distributions : normalize_name(d.Name) = name

\* ("distribute",)
_BUILTIN_DISTRIBUTION_NAMES == {<<100, 105, 115, 116, 114, 105, 98, 117, 116, 101>>}

\* A requirement of the metadata, written with the published Name of its target
Requires(name) == [name |-> DistributionOf(name).Name, extras |-> {}, marker |-> None]

\* The requirement graphs of the model: every graph on the distributions,
\* self-requirements and cycles included, with at most MaxEdges edges.
EdgeCount(g) == Cardinality({e \in DistributionNames \X DistributionNames : e[2] \in g[e[1]]})

Graphs == {g \in [DistributionNames -> SUBSET DistributionNames] : EdgeCount(g) <= MaxEdges}

\* The graphs in which no distribution requires itself
GraphsWithoutSelfRequirement == {g \in Graphs : \A n \in DistributionNames : n \notin g[n]}

Registry(g) ==
    [n \in DistributionNames |->
        [Name |-> DistributionOf(n).Name,
         version |-> DistributionOf(n).version,
         requires |-> {Requires(m) : m \in g[n]}]]

\* get_distribution(name): get_installed_distributions()[normalize_name(name)].
\* The operators below take the dictionary get_installed_distributions()
\* returns as their first argument, `distributions`.
get_distribution(distributions, name) == distributions[normalize_name(name)]

(***************************************************************************)
(* utilities.py: the closure traversal.                                    *)
(***************************************************************************)
\* The requirements of a distribution that apply under the extras and whose
\* name is not excluded.
_iter_distribution_requirements(distribution, extras, exclude) ==
    {requirement \in distribution.requires :
        /\ \/ requirement.marker = None
           \/ \E extra \in extras : requirement.marker = extra
        /\ normalize_name(requirement.name) \notin exclude}

\* depth - 1, and None when depth is None
Decrement(depth) == IF depth = None THEN None ELSE Some(depth[1] - 1)

\* ChildExclude without the removal of the child's own name
ChildExcludeKeepingSelf(exclude, lateral_exclude, requirement_) ==
    exclude \cup lateral_exclude

\* The exclude set a child call receives: a new set, so that what the child
\* adds to it is seen by neither its parent nor its siblings.
ChildExclude(exclude, lateral_exclude, requirement_) ==
    exclude \cup (lateral_exclude \ {_get_requirement_name(requirement_)})

\* iter_requirement_names_ enters the child when depth_ is None or >= 0
ChildEntered(depth_) == depth_ = None \/ depth_[1] >= 0

\* The names the iterable returned by _iter_requirement_names yields.  The
\* direct names are yielded (and entered in lateral_exclude) before any child
\* generator runs; each child is handed depth - 1 and calls
\* _iter_requirement_names with that less one.
RECURSIVE _iter_requirement_names(_, _, _, _)
_iter_requirement_names(distributions, requirement, exclude, depth) ==
    LET name == normalize_name(requirement.name)
        extras == requirement.extras
    IN  IF name \in exclude THEN {}
        ELSE IF name \in _BUILTIN_DISTRIBUTION_NAMES THEN {}
        ELSE
        LET exclude_ == exclude \cup {name}
            distribution == distributions[name]
            requirements == _iter_distribution_requirements(distribution, extras, exclude_)
            lateral_exclude == {_get_requirement_name(r) : r \in requirements}
            depth_ == Decrement(depth)
        IN  lateral_exclude \cup
            UNION { IF ChildEntered(depth_)
                    THEN _iter_requirement_names(
                            distributions,
                            requirement_,
                            ChildExclude(exclude_, lateral_exclude, requirement_),
                            Decrement(depth_))
                    ELSE {}
                  : requirement_ \in requirements }

get_required_distribution_names(distributions, requirement_string, exclude, depth) ==
    _iter_requirement_names(
        distributions,
        get_requirement(requirement_string),
        {normalize_name(e) : e \in exclude},
        depth)

(***************************************************************************)
(* _utilities.py and the built-ins the freeze module uses.                 *)
(***************************************************************************)
\* iter_distinct: the items in the order of their first appearance, once each
RECURSIVE iter_distinct(_)
iter_distinct(items) ==
    IF items = <<>> THEN <<>>
    ELSE LET front == iter_distinct(SubSeq(items, 1, Len(items) - 1))
             last == items[Len(items)]
         IN  IF \E i \in 1..Len(front) : front[i] = last
             THEN front
             ELSE Append(front, last)

\* tuple(reversed(items))
reversed(items) == [i \in 1..Len(items) |-> items[Len(items) + 1 - i]]

\* The element of a set of one element: in Only({e(v) : v \in {value}}) the
\* expression `value` is evaluated once, as a Python local is
Only(singleton) == CHOOSE element \in singleton : TRUE

\* The set `items` as it is iterated, `order` listing its elements among others
SetIteration(items, order) ==
    Only({SelectSeq(order, LAMBDA x : x \in members) : members \in {items}})

\* fnmatch(name, pattern) on a POSIX system: "*" matches any run, "?" any one
\* character, every other character itself
RECURSIVE fnmatch(_, _)
fnmatch(name, pattern) ==
    IF pattern = <<>> THEN name = <<>>
    ELSE IF Head(pattern) = 42
         THEN \/ fnmatch(name, Tail(pattern))
              \/ name # <<>> /\ fnmatch(Tail(name), pattern)
    ELSE IF name = <<>> THEN FALSE
    ELSE /\ Head(pattern) = 63 \/ Head(pattern) = Head(name)
         /\ fnmatch(Tail(name), Tail(pattern))

\* Where sorted() puts an item among the already sorted ones: after every item
\* that does not come after it, so that equal keys keep their order (reverse
\* sorts descending and keeps the order of equal keys as well)
RECURSIVE InsertByKey(_, _, _)
InsertByKey(sorted_, item, reverse) ==
    IF sorted_ = <<>> THEN <<item>>
    ELSE LET last == sorted_[Len(sorted_)]
             before == IF reverse
                       THEN StrLess(lower(last), lower(item))
                       ELSE StrLess(lower(item), lower(last))
         IN  IF before
             THEN Append(InsertByKey(SubSeq(sorted_, 1, Len(sorted_) - 1), item, reverse), last)
             ELSE Append(sorted_, item)

\* sorted(items, key=lambda name: name.lower(), reverse=reverse)
RECURSIVE sorted(_, _)
sorted(items, reverse) ==
    IF items = <<>> THEN <<>>
    ELSE InsertByKey(sorted(SubSeq(items, 1, Len(items) - 1), reverse),
                     items[Len(items)], reverse)

\* The orders in which a set of names is iterated
Ascending == sorted(SetIteration(DistributionNames,
                 <<<<97>>, <<98>>, <<97, 45, 99>>, <<100>>>>), FALSE)
Orders == {Ascending, reversed(Ascending)}

(***************************************************************************)
(* freeze.py                                                               *)
(***************************************************************************)
\* {"importlib-metadata", "importlib-resources"}
_DO_NOT_PIN_DISTRIBUTION_NAMES ==
    { <<105, 109, 112, 111, 114, 116, 108, 105, 98, 45, 109, 101, 116, 97, 100, 97, 116, 97>>,
      <<105, 109, 112, 111, 114, 116, 108, 105, 98, 45, 114, 101, 115, 111, 117, 114, 99, 101, 115>> }

\* f"{distribution.metadata['Name']}=={distribution.version}"
FrozenString(distribution) == distribution.Name \o <<61, 61>> \o distribution.version

get_requirement_string(distributions, distribution_name, no_version) ==
    IF \/ distribution_name \in _DO_NOT_PIN_DISTRIBUTION_NAMES
       \/ \E pattern \in no_version : fnmatch(distribution_name, pattern)
    THEN distribution_name
    ELSE FrozenString(get_distribution(distributions, distribution_name))

\* The depth_ test of get_required_distribution_names_: None, or truthy
DepthAllowsLookup(depth_) == depth_ = None \/ depth_[1] # 0

\* get_required_distribution_names_ with the traversal halting at the names of
\* `exclude` as well
get_required_distribution_names_halting_at_exclude(distributions, requirement_string, depth_, exclude, exclude_recursive) ==
    LET name == get_requirement_string_distribution_name(requirement_string)
    IN  IF name \in exclude_recursive THEN {}
        ELSE ({name} \cup
              (IF DepthAllowsLookup(depth_)
               THEN get_required_distribution_names(
                        distributions, requirement_string,
                        exclude_recursive \cup exclude, Decrement(depth_))
               ELSE {})) \ exclude

\* get_required_distribution_names_ with the traversal halting nowhere
get_required_distribution_names_halting_nowhere(distributions, requirement_string, depth_, exclude, exclude_recursive) ==
    LET name == get_requirement_string_distribution_name(requirement_string)
    IN  IF name \in exclude_recursive THEN {}
        ELSE ({name} \cup
              (IF DepthAllowsLookup(depth_)
               THEN get_required_distribution_names(
                        distributions, requirement_string, {}, Decrement(depth_))
               ELSE {})) \ exclude

\* _iter_frozen_requirements.get_required_distribution_names_
get_required_distribution_names_(distributions, requirement_string, depth_, exclude, exclude_recursive) ==
    LET name == get_requirement_string_distribution_name(requirement_string)
    IN  IF name \in exclude_recursive THEN {}
        ELSE ({name} \cup
              (IF DepthAllowsLookup(depth_)
               THEN get_required_distribution_names(
                        distributions, requirement_string, exclude_recursive, Decrement(depth_))
               ELSE {})) \ exclude

\* The chain of the sets of names of the requirement strings, each set
\* iterated in `order`
RECURSIVE ChainNames(_, _, _, _, _, _)
ChainNames(distributions, requirement_strings, depth, exclude, exclude_recursive, order) ==
    IF requirement_strings = <<>> THEN <<>>
    ELSE SetIteration(
             get_required_distribution_names_(
                 distributions, Head(requirement_strings), Decrement(depth),
                 exclude, exclude_recursive),
             order)
         \o ChainNames(distributions, Tail(requirement_strings), depth,
                       exclude, exclude_recursive, order)

_iter_frozen_requirements(distributions, requirement_strings, exclude, exclude_recursive, no_version, depth, order) ==
    Only({ [i \in 1..Len(requirements) |->
                get_requirement_string(distributions, requirements[i], no_version)]
           : requirements \in
                {iter_distinct(ChainNames(distributions, requirement_strings, depth,
                                          exclude, exclude_recursive, order))} })

\* The dict distribution_requirement: for each name the last requirement
\* string with that name
DistributionRequirement(requirements, name) ==
    LET last == CHOOSE i \in 1..Len(requirements) :
                    /\ get_requirement_string_distribution_name(requirements[i]) = name
                    /\ \A j \in (i + 1)..Len(requirements) :
                          get_requirement_string_distribution_name(requirements[j]) # name
    IN  requirements[last]

\* is_non_circular_requirement with the circularity test inverted
is_circular_requirement(dependency, dependent, dependent_dependencies, remaining) ==
    /\ dependency \in remaining
    /\ dependent \in dependent_dependencies[dependency]

\* is_non_circular_requirement: the dependency is still unaccounted for and
\* does not require the dependent back
is_non_circular_requirement(dependency, dependent, dependent_dependencies, remaining) ==
    /\ dependency \in remaining
    /\ dependent \notin dependent_dependencies[dependency]

\* Yielded without the exemption of circular references: yielded when none
\* of the dependencies remains
YieldedWhenNoneRemains(dependent, dependent_dependencies, remaining) ==
    \A dependency \in dependent_dependencies[dependent] : dependency \notin remaining

\* The test of the for loop: the dependent is yielded now
Yielded(dependent, dependent_dependencies, remaining) ==
    \/ dependent_dependencies[dependent] = {}
    \/ ~\E dependency \in dependent_dependencies[dependent] :
            is_non_circular_requirement(dependency, dependent, dependent_dependencies, remaining)

\* One pass of the for loop over the sorted snapshot of the dict's items, from
\* position i on: each test reads the dict as the pass has left it so far.
\* The value is <<what the pass yielded, the names still in the dict>>.
RECURSIVE ForLoop(_, _, _, _)
ForLoop(snapshot, i, dependent_dependencies, remaining) ==
    IF i > Len(snapshot) THEN <<<<>>, remaining>>
    ELSE IF Yielded(snapshot[i], dependent_dependencies, remaining)
         THEN Only({ <<<<snapshot[i]>> \o rest[1], rest[2]>>
                     : rest \in {ForLoop(snapshot, i + 1, dependent_dependencies,
                                         remaining \ {snapshot[i]})} })
         ELSE ForLoop(snapshot, i + 1, dependent_dependencies, remaining)

\* The while loop: pass after pass until the dict is empty.  A pass that
\* yields nothing leaves the dict as it was, and the loop never ends.
\* The value is [yielded, passes, ends]: the names in the order yielded, how
\* many names each pass yielded, and whether the loop ends.
RECURSIVE WhileLoop(_, _, _)
WhileLoop(keys, dependent_dependencies, remaining) ==
    IF remaining = {} THEN [yielded |-> <<>>, passes |-> <<>>, ends |-> TRUE]
    ELSE Only({
            IF pass[1] = <<>>
            THEN [yielded |-> <<>>, passes |-> <<0>>, ends |-> FALSE]
            ELSE Only({ [yielded |-> pass[1] \o rest.yielded,
                         passes |-> <<Len(pass[1])>> \o rest.passes,
                         ends |-> rest.ends]
                        : rest \in {WhileLoop(keys, dependent_dependencies, pass[2])} })
            : pass \in {ForLoop(sorted(SetIteration(remaining, keys), FALSE), 1,
                                dependent_dependencies, remaining)} })

\* The value is [yielded, passes, ends]: the requirement strings in the order
\* yielded, and whether the generator is ever exhausted.
_iter_sort_dependents_last(distributions, requirements) ==
    LET keys == iter_distinct(
            [i \in 1..Len(requirements) |->
                get_requirement_string_distribution_name(requirements[i])])
        names == {keys[i] : i \in 1..Len(keys)}
        distribution_requirement ==
            [name \in names |-> DistributionRequirement(requirements, name)]
        items == {<<name, get_required_distribution_names(
                            distributions, distribution_requirement[name], {}, None)>>
                  : name \in names}
        dependent_dependencies ==
            [name \in names |-> (CHOOSE item \in items : item[1] = name)[2]]
    IN  Only({ [yielded |-> [i \in 1..Len(loop.yielded) |->
                                distribution_requirement[loop.yielded[i]]],
                passes |-> loop.passes,
                ends |-> loop.ends]
               : loop \in {WhileLoop(keys, dependent_dependencies, names)} })

\* FrozenExclude with the name of every requirement string in it
FrozenExcludeEveryRoot(requirement_strings, exclude) ==
    {get_requirement_string_distribution_name(requirement_strings[i]) :
        i \in 1..Len(requirement_strings)}
    \cup {normalize_name(e) : e \in exclude}

\* The exclude set handed to _iter_frozen_requirements: the names of the
\* requirement strings that are not plain distribution names, and the
\* normalized names of `exclude`
FrozenExclude(requirement_strings, exclude) ==
    ( {get_requirement_string_distribution_name(requirement_strings[i]) :
            i \in 1..Len(requirement_strings)}
      \ {normalize_name(requirement_strings[i]) : i \in 1..Len(requirement_strings)} )
    \cup {normalize_name(e) : e \in exclude}

\* Whether get_frozen_requirements calls _iter_frozen_requirements, depth
\* being the argument less one
DiscoveryDone(depth) == depth = None \/ depth[1] >= 0

\* DependencyOrdered with the tuple reversed when `reverse` is set instead
DependencyOrderedReversedOnReverse(distributions, frozen_requirements, reverse) ==
    Only({ [returns |-> ordered.ends,
            value |-> IF reverse THEN reversed(ordered.yielded) ELSE ordered.yielded]
           : ordered \in {_iter_sort_dependents_last(distributions, frozen_requirements)} })

\* tuple(_iter_sort_dependents_last(...)), reversed unless reverse
DependencyOrdered(distributions, frozen_requirements, reverse) ==
    Only({ [returns |-> ordered.ends,
            value |-> IF reverse THEN ordered.yielded ELSE reversed(ordered.yielded)]
           : ordered \in {_iter_sort_dependents_last(distributions, frozen_requirements)} })

\* get_frozen_requirements, `requirements` being the set of requirement
\* strings as it is iterated and `order` the order in which each set of names
\* is iterated (no requirement string is a configuration file).  The value is
\* [returns, value]: whether the call returns, and the tuple it returns.
get_frozen_requirements(distributions, requirements, exclude, exclude_recursive, no_version, dependency_order, reverse, depth, order) ==
    LET requirement_strings == requirements
        depth_ == Decrement(depth)
        frozen_requirements ==
            IF DiscoveryDone(depth_)
            THEN _iter_frozen_requirements(
                    distributions,
                    requirement_strings,
                    FrozenExclude(requirement_strings, exclude),
                    {normalize_name(e) : e \in exclude_recursive},
                    no_version, depth_, order)
            ELSE iter_distinct(requirement_strings)
    IN  Only({ IF dependency_order
               THEN DependencyOrdered(distributions, frozen, reverse)
               ELSE [returns |-> TRUE, value |-> sorted(frozen, reverse)]
               : frozen \in {frozen_requirements} })

(***************************************************************************)
(* freeze.py: the command line.                                            *)
(***************************************************************************)
\* The pieces of a string between its commas
RECURSIVE SplitAtCommas(_)
SplitAtCommas(value) ==
    IF \A i \in 1..Len(value) : value[i] # 44 THEN {value}
    ELSE LET comma == CHOOSE i \in 1..Len(value) :
                          value[i] = 44 /\ \A j \in 1..(i - 1) : value[j] # 44
         IN  {SubSeq(value, 1, comma - 1)}
                 \cup SplitAtCommas(SubSeq(value, comma + 1, Len(value)))

\* iter_parse_delimited_values: "A distribution (or comma-separated list of
\* distributions)" for each occurrence of the option
iter_parse_delimited_values(values) ==
    UNION {SplitAtCommas(values[i]) : i \in 1..Len(values)}

\* freeze(): the lines printed, as [returns, value]
freeze(distributions, requirements, exclude, exclude_recursive, no_version, dependency_order, reverse, depth, order) ==
    get_frozen_requirements(
        distributions, requirements, exclude, exclude_recursive, no_version,
        dependency_order, reverse, depth, order)

\* main() after parse_args() returned `namespace`: freeze is called without
\* `reverse`, which is then its default, False
main(distributions, namespace, order) ==
    freeze(distributions,
           namespace.requirement,
           iter_parse_delimited_values(namespace.exclude),
           iter_parse_delimited_values(namespace.exclude_recursive),
           namespace.no_version,
           namespace.dependency_order,
           FALSE,
           namespace.depth,
           order)

(***************************************************************************)
(* Lookups and installs.  An environment is what a call reads and changes: *)
(* `installed`, the dictionary get_installed_distributions() returns;      *)
(* `index`, what `pip install` does for each name that is not installed    *)
(* ("installs" the distribution, "absent": pip succeeds and the name is    *)
(* still not among the installed distributions, "fails": pip exits with an *)
(* error); `log`, the lookups and installs so far; `raised`, the exception *)
(* that ended the call ("" while none has).                                *)
(***************************************************************************)
Environment(distributions, pip) ==
    [installed |-> distributions, index |-> pip, log |-> <<>>, raised |-> ""]

Logged(e, event) == [e EXCEPT !.log = Append(@, event)]

Raised(e, exception) == [e EXCEPT !.raised = exception]

\* get_installed_distributions()[name]: found, or KeyError
Lookup(e, name) == Logged(e, <<"lookup", name, name \in DOMAIN e.installed>>)

\* install_requirement(name): pip install, then cache_clear()
install_requirement(e, name) ==
    LET attempted == Logged(e, <<"install", name>>)
    IN  IF name \notin DOMAIN e.index THEN Raised(attempted, "CalledProcessError")
        ELSE IF e.index[name].outcome = "fails" THEN Raised(attempted, "CalledProcessError")
        ELSE IF e.index[name].outcome = "absent" THEN attempted
        ELSE [attempted EXCEPT !.installed = (name :> e.index[name].distribution) @@ @]

\* Whether get_requirement_string returns the name without a version
distribution_name_is_not_pinned(distribution_name, no_version) ==
    \/ distribution_name \in _DO_NOT_PIN_DISTRIBUTION_NAMES
    \/ \E pattern \in no_version : fnmatch(distribution_name, pattern)

\* GetRequirementString with the names of _DO_NOT_PIN_DISTRIBUTION_NAMES
\* pinned like any other
GetRequirementStringPinningAll(e, distribution_name, no_version) ==
    IF \E pattern \in no_version : fnmatch(distribution_name, pattern)
    THEN [env |-> e, value |-> distribution_name]
    ELSE LET looked == Lookup(e, normalize_name(distribution_name))
         IN  IF distribution_name \in DOMAIN looked.installed
             THEN [env |-> looked, value |-> FrozenString(looked.installed[distribution_name])]
             ELSE [env |-> Raised(looked, "KeyError"), value |-> None]

\* _iter_frozen_requirements.get_requirement_string with its lookups and its
\* install: [env, value], the environment after the call and the string
\* returned (None when the call raised)
GetRequirementString(e, distribution_name, no_version) ==
    IF distribution_name_is_not_pinned(distribution_name, no_version)
    THEN [env |-> e, value |-> distribution_name]
    ELSE LET looked == Lookup(e, normalize_name(distribution_name))
         IN  IF normalize_name(distribution_name) \in DOMAIN looked.installed
             THEN [env |-> looked,
                   value |-> FrozenString(get_distribution(looked.installed, distribution_name))]
             ELSE LET attempted == install_requirement(looked, distribution_name)
                      again == Lookup(attempted, distribution_name)
                  IN  IF attempted.raised # ""
                      THEN [env |-> attempted, value |-> None]
                      ELSE IF distribution_name \in DOMAIN again.installed
                      THEN [env |-> again,
                            value |-> FrozenString(again.installed[distribution_name])]
                      ELSE [env |-> Raised(again, "PackageNotFoundError"), value |-> None]

(***************************************************************************)
(* utilities.py: the closure traversal with its lookups and installs, run  *)
(* in the order in which the chained generators are consumed.  Each        *)
(* operator returns [env, names]: the environment after the call and the   *)
(* names yielded (what was yielded before an exception is of no use to the *)
(* caller, set() having raised).                                           *)
(***************************************************************************)
\* _get_requirement_distribution: [env, found].  A built-in name is not
\* looked up; a missing name is installed and looked up once more, with
\* reinstall=False, so that the second KeyError is raised.
_get_requirement_distribution(e, name) ==
    IF name \in _BUILTIN_DISTRIBUTION_NAMES THEN [env |-> e, found |-> FALSE]
    ELSE Only({
        IF name \in DOMAIN looked.installed THEN [env |-> looked, found |-> TRUE]
        ELSE Only({
            IF attempted.raised # "" THEN [env |-> attempted, found |-> FALSE]
            ELSE IF name \in DOMAIN attempted.installed
            THEN [env |-> Lookup(attempted, name), found |-> TRUE]
            ELSE [env |-> Raised(Lookup(attempted, name), "KeyError"), found |-> FALSE]
            : attempted \in {install_requirement(looked, name)} })
        : looked \in {Lookup(e, name)} })

\* tuple(iter_distinct(...)): the requirements in the order of the metadata,
\* which lists them by name
RequirementsTuple(requirements) ==
    Only({ [i \in 1..Len(names) |->
                CHOOSE r \in requirements : _get_requirement_name(r) = names[i]]
           : names \in {SetIteration({_get_requirement_name(r) : r \in requirements},
                                     Ascending)} })

\* exclude.add(name) left out
ExcludeNotAdded(exclude, name) == exclude

\* exclude.add(name): "Ensure we don't follow the same requirement again,
\* causing cyclic recursion"
ExcludeAdded(exclude, name) == exclude \cup {name}

\* _iter_requirement_names, `nesting` calls deep: a call nested deeper than
\* RecursionLimit raises RecursionError.  IterChildren consumes the child
\* generators from the i-th on.
RECURSIVE IterRequirementNames(_, _, _, _, _)
RECURSIVE IterChildren(_, _, _, _, _, _, _)
IterRequirementNames(e, requirement, exclude, depth, nesting) ==
    IF nesting > RecursionLimit THEN [env |-> Raised(e, "RecursionError"), names |-> {}]
    ELSE IF normalize_name(requirement.name) \in exclude THEN [env |-> e, names |-> {}]
    ELSE Only({
        IF ~got.found THEN [env |-> got.env, names |-> {}]
        ELSE Only({
            Only({ [env |-> children.env, names |-> lateral_exclude \cup children.names]
                   : children \in {IterChildren(
                        got.env,
                        RequirementsTuple(_iter_distribution_requirements(
                            got.env.installed[normalize_name(requirement.name)],
                            requirement.extras, exclude_)),
                        1, exclude_, lateral_exclude, Decrement(depth), nesting)} })
            : lateral_exclude \in {{_get_requirement_name(r) :
                r \in _iter_distribution_requirements(
                        got.env.installed[normalize_name(requirement.name)],
                        requirement.extras, exclude_)}} })
        : got \in {_get_requirement_distribution(e, normalize_name(requirement.name))},
          exclude_ \in {ExcludeAdded(exclude, normalize_name(requirement.name))} })

IterChildren(e, requirements, i, exclude_, lateral_exclude, depth_, nesting) ==
    IF i > Len(requirements) \/ e.raised # "" THEN [env |-> e, names |-> {}]
    ELSE Only({
        Only({ [env |-> rest.env, names |-> first.names \cup rest.names]
               : rest \in {IterChildren(first.env, requirements, i + 1, exclude_,
                                        lateral_exclude, depth_, nesting)} })
        : first \in {IF ChildEntered(depth_)
                     THEN IterRequirementNames(
                              e, requirements[i],
                              ChildExclude(exclude_, lateral_exclude, requirements[i]),
                              Decrement(depth_), nesting + 1)
                     ELSE [env |-> e, names |-> {}]} })

\* get_required_distribution_names with its lookups and installs
GetRequiredDistributionNames(e, requirement_string, exclude, depth) ==
    IterRequirementNames(e, get_requirement(requirement_string),
                         {normalize_name(x) : x \in exclude}, depth, 1)

\* _iter_requirement_strings_required_distribution_names.
\* get_required_distribution_names_: the name of the string and what it
\* requires, or nothing when a KeyError was raised on the way (the strings
\* come from iter_distinct, so that none has been visited before)
RequirementStringNames(e, requirement_string) ==
    Only({
        IF required.env.raised = "KeyError"
        THEN [env |-> Raised(required.env, ""), names |-> {}]
        ELSE IF required.env.raised # "" THEN required
        ELSE [env |-> required.env,
              names |-> {get_requirement_string_distribution_name(requirement_string)}
                            \cup required.names]
        : required \in {GetRequiredDistributionNames(e, requirement_string, {}, None)} })

\* chain(*map(get_required_distribution_names_, requirement_strings))
RECURSIVE RequirementStringsNames(_, _, _)
RequirementStringsNames(e, requirement_strings, i) ==
    IF i > Len(requirement_strings) \/ e.raised # "" THEN [env |-> e, names |-> {}]
    ELSE Only({
        Only({ [env |-> rest.env, names |-> first.names \cup rest.names]
               : rest \in {RequirementStringsNames(first.env, requirement_strings, i + 1)} })
        : first \in {RequirementStringNames(e, requirement_strings[i])} })

\* get_requirements_required_distribution_names for requirement strings (no
\* configuration file among them), `requirements` listing them as the set of
\* them is iterated
get_requirements_required_distribution_names(e, requirements) ==
    RequirementStringsNames(e, iter_distinct(requirements), 1)

(***************************************************************************)
(* freeze.py with its lookups and installs: the closure step, the          *)
(* formatting step and the ordering step of get_frozen_requirements, in    *)
(* the order in which the iterators are consumed.  Each operator returns   *)
(* [env, ...]: the environment after the step and what the step produced.  *)
(***************************************************************************)
\* _iter_frozen_requirements.get_required_distribution_names_: [env, names]
GetRequiredDistributionNames_(e, requirement_string, depth_, exclude, exclude_recursive) ==
    IF get_requirement_string_distribution_name(requirement_string) \in exclude_recursive
    THEN [env |-> e, names |-> {}]
    ELSE IF ~DepthAllowsLookup(depth_)
    THEN [env |-> e,
          names |-> {get_requirement_string_distribution_name(requirement_string)} \ exclude]
    ELSE Only({ [env |-> required.env,
                 names |-> ({get_requirement_string_distribution_name(requirement_string)}
                                \cup required.names) \ exclude]
                : required \in {GetRequiredDistributionNames(
                                    e, requirement_string, exclude_recursive,
                                    Decrement(depth_))} })

\* chain(*map(get_required_distribution_names_, requirement_strings)), from
\* the i-th string on: [env, names], the names in the order of the chain
RECURSIVE ChainNamesLogged(_, _, _, _, _, _, _)
ChainNamesLogged(e, requirement_strings, i, depth, exclude, exclude_recursive, order) ==
    IF i > Len(requirement_strings) \/ e.raised # "" THEN [env |-> e, names |-> <<>>]
    ELSE Only({
        Only({ [env |-> rest.env, names |-> SetIteration(first.names, order) \o rest.names]
               : rest \in {ChainNamesLogged(first.env, requirement_strings, i + 1, depth,
                                            exclude, exclude_recursive, order)} })
        : first \in {GetRequiredDistributionNames_(
                        e, requirement_strings[i], Decrement(depth),
                        exclude, exclude_recursive)} })

\* map(get_requirement_string, requirements) consumed from the i-th name on:
\* [env, value], the strings in order
RECURSIVE RequirementStringsLogged(_, _, _, _)
RequirementStringsLogged(e, requirements, i, no_version) ==
    IF i > Len(requirements) \/ e.raised # "" THEN [env |-> e, value |-> <<>>]
    ELSE Only({
        Only({ [env |-> rest.env, value |-> <<first.value>> \o rest.value]
               : rest \in {RequirementStringsLogged(first.env, requirements, i + 1,
                                                    no_version)} })
        : first \in {GetRequirementString(e, requirements[i], no_version)} })

\* _iter_frozen_requirements: [env, value]
IterFrozenRequirements(e, requirement_strings, exclude, exclude_recursive, no_version, depth, order) ==
    Only({ RequirementStringsLogged(chained.env, iter_distinct(chained.names), 1, no_version)
           : chained \in {ChainNamesLogged(e, requirement_strings, 1, depth,
                                           exclude, exclude_recursive, order)} })

\* The dict dependent_dependencies of _iter_sort_dependents_last, filled key
\* by key from the i-th key on: [env, items], the items as pairs
RECURSIVE DependentDependencies(_, _, _, _)
DependentDependencies(e, keys, i, requirements) ==
    IF i > Len(keys) \/ e.raised # "" THEN [env |-> e, items |-> {}]
    ELSE Only({
        Only({ [env |-> rest.env, items |-> {<<keys[i], first.names>>} \cup rest.items]
               : rest \in {DependentDependencies(first.env, keys, i + 1, requirements)} })
        : first \in {GetRequiredDistributionNames(
                        e, DistributionRequirement(requirements, keys[i]), {}, None)} })

\* _iter_sort_dependents_last: [env, yielded, ends]
IterSortDependentsLast(e, requirements) ==
    Only({
        Only({
            IF filled.env.raised # ""
            THEN [env |-> filled.env, yielded |-> <<>>, ends |-> TRUE]
            ELSE Only({ [env |-> filled.env,
                         yielded |-> [i \in 1..Len(loop.yielded) |->
                                        DistributionRequirement(requirements, loop.yielded[i])],
                         ends |-> loop.ends]
                        : loop \in {WhileLoop(
                            keys,
                            [name \in {keys[i] : i \in 1..Len(keys)} |->
                                (CHOOSE item \in filled.items : item[1] = name)[2]],
                            {keys[i] : i \in 1..Len(keys)})} })
            : filled \in {DependentDependencies(e, keys, 1, requirements)} })
        : keys \in {iter_distinct(
                [i \in 1..Len(requirements) |->
                    get_requirement_string_distribution_name(requirements[i])])} })

\* get_frozen_requirements: [env, returns, value]
GetFrozenRequirements(e, requirements, exclude, exclude_recursive, no_version, dependency_order, reverse, depth, order) ==
    Only({
        IF frozen.env.raised # ""
        THEN [env |-> frozen.env, returns |-> TRUE, value |-> <<>>]
        ELSE IF dependency_order
        THEN Only({ [env |-> ordered.env,
                     returns |-> ordered.ends,
                     value |-> IF reverse THEN ordered.yielded
                               ELSE reversed(ordered.yielded)]
                    : ordered \in {IterSortDependentsLast(frozen.env, frozen.value)} })
        ELSE [env |-> frozen.env, returns |-> TRUE, value |-> sorted(frozen.value, reverse)]
        : frozen \in {IF DiscoveryDone(Decrement(depth))
                      THEN IterFrozenRequirements(
                               e, requirements,
                               FrozenExclude(requirements, exclude),
                               {normalize_name(x) : x \in exclude_recursive},
                               no_version, Decrement(depth), order)
                      ELSE [env |-> e, value |-> iter_distinct(requirements)]} })

(***************************************************************************)
(* The state machine: a registry, then one call of an entry point.         *)
(***************************************************************************)
Depths == {None} \cup {Some(n) : n \in 0..MaxDepth}

\* The requirement strings a caller gives: the published names, ...
RootStrings == {d.Name : d \in Distributions}
\* ... a name in another case ("A"), a pinned requirement ("d==4")
OtherCase == <<65>>
Pinned == <<100, 61, 61, 52>>
PinnedName == get_requirement_string_distribution_name(Pinned)

\* The lines get_frozen_requirements prints for the distributions
FrozenStrings == {FrozenString(d) : d \in Distributions}

\* "a*"
Pattern == <<97, 42>>

\* The sequences of distinct strings, none empty
DistinctSequences(strings) ==
    UNION { {q \in [1..n -> strings] : \A i, j \in 1..n : i # j => q[i] # q[j]}
            : n \in 1..Cardinality(strings) }

AtMostOne(names) == {{}} \cup {{n} : n \in names}

NoCall == [op |-> "none"]

\* Every distribution is installed: nothing is left for pip to install
NothingToInstall == [name \in {} |-> [outcome |-> "fails"]]

Init ==
    /\ installed \in {Registry(g) : g \in Graphs}
    /\ pc = "idle"
    /\ call = NoCall
    /\ result = {}
    /\ index = NothingToInstall
    /\ log = <<>>

InitWithoutSelfRequirement ==
    /\ installed \in {Registry(g) : g \in GraphsWithoutSelfRequirement}
    /\ pc = "idle"
    /\ call = NoCall
    /\ result = {}
    /\ index = NothingToInstall
    /\ log = <<>>

CallGetRequiredDistributionNames(requirement_string, exclude, depth) ==
    /\ pc = "idle"
    /\ pc' = "done"
    /\ call' = [op |-> "get_required_distribution_names",
                requirement_string |-> requirement_string,
                exclude |-> exclude,
                depth |-> depth]
    /\ result' = get_required_distribution_names(installed, requirement_string, exclude, depth)
    /\ UNCHANGED <<installed, index, log>>

CallGetFrozenRequirements(requirements, exclude, exclude_recursive, no_version, dependency_order, reverse, depth, order) ==
    /\ pc = "idle"
    /\ \E returned \in {get_frozen_requirements(
                installed, requirements, exclude, exclude_recursive, no_version,
                dependency_order, reverse, depth, order)} :
           /\ pc' = IF returned.returns THEN "done" ELSE "hang"
           /\ result' = returned.value
    /\ call' = [op |-> "get_frozen_requirements",
                requirements |-> requirements,
                exclude |-> exclude,
                exclude_recursive |-> exclude_recursive,
                no_version |-> no_version,
                dependency_order |-> dependency_order,
                reverse |-> reverse,
                depth |-> depth]
    /\ UNCHANGED <<installed, index, log>>

CallIterSortDependentsLast(requirements) ==
    /\ pc = "idle"
    /\ \E returned \in {_iter_sort_dependents_last(installed, requirements)} :
           /\ pc' = IF returned.ends THEN "done" ELSE "hang"
           /\ result' = returned.yielded
    /\ call' = [op |-> "_iter_sort_dependents_last", requirements |-> requirements]
    /\ UNCHANGED <<installed, index, log>>

\* "importlib-metadata" 5, one of _DO_NOT_PIN_DISTRIBUTION_NAMES
NeverPinned ==
    [Name |-> <<105,109,112,111,114,116,108,105,98,45,109,101,116,97,100,97,116,97>>,
     version |-> <<53>>]

\* The distributions the formatter is asked about, none requiring anything
FormatDistributions ==
    [n \in DistributionNames \cup {normalize_name(NeverPinned.Name)} |->
        IF n \in DistributionNames
        THEN [Name |-> DistributionOf(n).Name,
              version |-> DistributionOf(n).version,
              requires |-> {}]
        ELSE [Name |-> NeverPinned.Name, version |-> NeverPinned.version, requires |-> {}]]

\* What pip may do for a name
Outcomes == {"installs", "absent", "fails"}

\* The indexes for the names `absent` of the distributions `universe`
Indexes(universe, absent) ==
    { [n \in absent |-> [outcome |-> outcome[n], distribution |-> universe[n]]]
      : outcome \in [absent -> Outcomes] }

\* Any of the formatter's distributions may be missing
InitFormat ==
    /\ \E absent \in SUBSET DOMAIN FormatDistributions :
          /\ installed = [n \in (DOMAIN FormatDistributions) \ absent |-> FormatDistributions[n]]
          /\ index \in Indexes(FormatDistributions, absent)
    /\ pc = "idle"
    /\ call = NoCall
    /\ result = {}
    /\ log = <<>>

CallGetRequirementString(distribution_name, no_version) ==
    /\ pc = "idle"
    /\ \E returned \in {GetRequirementString(
                Environment(installed, index), distribution_name, no_version)} :
           /\ pc' = IF returned.env.raised = "" THEN "done" ELSE "raised"
           /\ result' = [value |-> returned.value, raised |-> returned.env.raised]
           /\ installed' = returned.env.installed
           /\ log' = returned.env.log
    /\ call' = [op |-> "get_requirement_string",
                distribution_name |-> distribution_name,
                no_version |-> no_version]
    /\ UNCHANGED index

\* get_requirement_string for every name, with and without a pattern
NextFormat ==
    \E distribution_name \in DOMAIN FormatDistributions, no_version \in {{}, {Pattern}} :
        CallGetRequirementString(distribution_name, no_version)

\* The registries of the calls that may install: one edge fewer, and at most
\* one distribution missing, which pip installs, leaves missing or fails on
InstallGraphs == {g \in Graphs : EdgeCount(g) < MaxEdges}

InitInstall ==
    /\ \E g \in InstallGraphs, absent \in AtMostOne(DistributionNames) :
          /\ installed = [n \in DistributionNames \ absent |-> Registry(g)[n]]
          /\ index \in Indexes(Registry(g), absent)
    /\ pc = "idle"
    /\ call = NoCall
    /\ result = {}
    /\ log = <<>>

\* get_required_distribution_names, its lookups and installs recorded
CallGetRequiredDistributionNamesLogged(requirement_string, exclude, depth) ==
    /\ pc = "idle"
    /\ \E returned \in {GetRequiredDistributionNames(
                Environment(installed, index), requirement_string, exclude, depth)} :
           /\ pc' = IF returned.env.raised = "" THEN "done" ELSE "raised"
           /\ result' = IF returned.env.raised = "" THEN returned.names
                        ELSE returned.env.raised
           /\ installed' = returned.env.installed
           /\ log' = returned.env.log
    /\ call' = [op |-> "get_required_distribution_names",
                requirement_string |-> requirement_string,
                exclude |-> exclude,
                depth |-> depth]
    /\ UNCHANGED index

CallGetRequirementsRequiredDistributionNames(requirements) ==
    /\ pc = "idle"
    /\ \E returned \in {get_requirements_required_distribution_names(
                Environment(installed, index), requirements)} :
           /\ pc' = IF returned.env.raised = "" THEN "done" ELSE "raised"
           /\ result' = IF returned.env.raised = "" THEN returned.names
                        ELSE returned.env.raised
           /\ installed' = returned.env.installed
           /\ log' = returned.env.log
    /\ call' = [op |-> "get_requirements_required_distribution_names",
                requirements |-> requirements]
    /\ UNCHANGED index

\* The requirement strings given to
\* get_requirements_required_distribution_names: one published name, alone or
\* with the pinned string, in both orders
RequirementSets ==
    {<<r>> : r \in RootStrings}
    \cup {<<r, Pinned>> : r \in RootStrings} \cup {<<Pinned, r>> : r \in RootStrings}

InstallingNames ==
    \E requirement_string \in RootStrings :
        CallGetRequiredDistributionNamesLogged(requirement_string, {}, None)

InstallingRequirementsNames ==
    \E requirements \in RequirementSets :
        CallGetRequirementsRequiredDistributionNames(requirements)

NextInstall == InstallingNames \/ InstallingRequirementsNames

\* "a,d": two names in one --exclude
TwoExcluded == <<97, 44, 100>>

\* The command lines: one requirement, with or without --exclude,
\* --dependency-order and --reverse
Namespaces ==
    [requirement : {<<r>> : r \in RootStrings},
     exclude : {<<>>, <<TwoExcluded>>},
     exclude_recursive : {<<>>},
     no_version : {{}},
     dependency_order : BOOLEAN,
     reverse : BOOLEAN,
     depth : {None, Some(1)}]

CallMain(namespace, order) ==
    /\ pc = "idle"
    /\ \E printed \in {main(installed, namespace, order)} :
           /\ pc' = IF printed.returns THEN "done" ELSE "hang"
           /\ result' = printed.value
    /\ call' = [op |-> "main", namespace |-> namespace, order |-> order]
    /\ UNCHANGED <<installed, index, log>>

NextMain ==
    \E namespace \in Namespaces, order \in Orders : CallMain(namespace, order)

\* get_required_distribution_names, call by call, for every root and depth in
\* every registry, self-requirements and cycles included
NextTermination ==
    \E requirement_string \in RootStrings, depth \in Depths :
        CallGetRequiredDistributionNamesLogged(requirement_string, {}, depth)

\* get_frozen_requirements, its lookups and installs recorded
CallGetFrozenRequirementsLogged(requirements, exclude, exclude_recursive, no_version, dependency_order, reverse, depth, order) ==
    /\ pc = "idle"
    /\ \E returned \in {GetFrozenRequirements(
                Environment(installed, index), requirements, exclude,
                exclude_recursive, no_version, dependency_order, reverse, depth, order)} :
           /\ pc' = IF returned.env.raised # "" THEN "raised"
                    ELSE IF returned.returns THEN "done" ELSE "hang"
           /\ result' = IF returned.env.raised # "" THEN returned.env.raised
                        ELSE returned.value
           /\ installed' = returned.env.installed
           /\ log' = returned.env.log
    /\ call' = [op |-> "get_frozen_requirements",
                requirements |-> requirements,
                exclude |-> exclude,
                exclude_recursive |-> exclude_recursive,
                no_version |-> no_version,
                dependency_order |-> dependency_order,
                reverse |-> reverse,
                depth |-> depth]
    /\ UNCHANGED index

\* get_frozen_requirements for one root with one name excluded recursively,
\* in both ordering modes
NextRecursive ==
    \E requirement_string \in RootStrings, exclude_recursive \in RootStrings,
       dependency_order \in BOOLEAN, order \in Orders :
        CallGetFrozenRequirementsLogged(<<requirement_string>>, {}, {exclude_recursive},
                                        {}, dependency_order, FALSE, None, order)

\* The extra "x"
Extra == <<120>>

\* The requirement edges of a graph
Edges(g) == {edge \in DistributionNames \X DistributionNames : edge[2] \in g[edge[1]]}

\* A registry with extras: the requirement of the edges `asking` names its
\* target with the extra ("c[x]"), the requirement of the edges `guarded`
\* applies under the extra only (c; extra == "x")
RegistryWithExtras(g, asking, guarded) ==
    [n \in DistributionNames |->
        [Name |-> DistributionOf(n).Name,
         version |-> DistributionOf(n).version,
         requires |-> {[name |-> DistributionOf(m).Name,
                        extras |-> IF <<n, m>> \in asking THEN {Extra} ELSE {},
                        marker |-> IF <<n, m>> \in guarded THEN Extra ELSE None]
                       : m \in g[n]}]]

\* Every registry without self-requirement in which at most one requirement
\* asks for the extra and at most one is guarded by it
InitExtras ==
    /\ \E g \in GraphsWithoutSelfRequirement :
          \E asking \in AtMostOne(Edges(g)), guarded \in AtMostOne(Edges(g)) :
              installed = RegistryWithExtras(g, asking, guarded)
    /\ pc = "idle"
    /\ call = NoCall
    /\ result = {}
    /\ index = NothingToInstall
    /\ log = <<>>

\* get_required_distribution_names for every root, unbounded
NextExtras ==
    \E requirement_string \in RootStrings :
        CallGetRequiredDistributionNames(requirement_string, {}, None)

\* get_required_distribution_names for every root and depth
NextNames ==
    \E requirement_string \in RootStrings, depth \in Depths :
        CallGetRequiredDistributionNames(requirement_string, {}, depth)

\* The requirement strings of the exclusion calls: one string, or the pinned
\* string with a published name (in both orders when the two strings are
\* forms of one name)
ExclusionRequirements ==
    {<<r>> : r \in RootStrings \cup {Pinned}}
    \cup {<<Pinned, r>> : r \in RootStrings}
    \cup {<<r, Pinned>> : r \in {s \in RootStrings : normalize_name(s) = PinnedName}}

\* get_frozen_requirements with one of the two exclusions, unbounded depth
ShallowExclusion ==
    \E requirements \in ExclusionRequirements, order \in Orders,
       exclude \in AtMostOne(RootStrings) :
        CallGetFrozenRequirements(requirements, exclude, {}, {}, FALSE, FALSE, None, order)

RecursiveExclusion ==
    \E requirements \in ExclusionRequirements, order \in Orders,
       exclude_recursive \in AtMostOne(RootStrings) :
        CallGetFrozenRequirements(requirements, {}, exclude_recursive, {}, FALSE, FALSE, None, order)

NextExclude == ShallowExclusion \/ RecursiveExclusion

\* The requirement strings of the depth calls: one published name, or one
\* name in two forms
DepthRequirements ==
    {<<r>> : r \in RootStrings} \cup {<<<<97>>, OtherCase>>, <<OtherCase, <<97>>>>}

\* get_frozen_requirements for every depth, in both ordering modes
DepthCalls ==
    \E requirements \in DepthRequirements, order \in Orders,
       depth \in Depths, dependency_order \in BOOLEAN :
        CallGetFrozenRequirements(requirements, {}, {}, {}, dependency_order, FALSE, depth, order)

\* get_frozen_requirements in every ordering mode, with and without versions
OrderingCalls ==
    \E requirements \in {<<r>> : r \in RootStrings}, order \in Orders,
       dependency_order \in BOOLEAN, reverse \in BOOLEAN,
       no_version \in {{}, {Pattern}} :
        CallGetFrozenRequirements(requirements, {}, {}, no_version,
                                  dependency_order, reverse, None, order)

NextDepth == DepthCalls

NextOrder == OrderingCalls

\* _iter_sort_dependents_last for the frozen lines in any order
NextSort ==
    \E requirements \in DistinctSequences(FrozenStrings) :
        CallIterSortDependentsLast(requirements)

Next ==
    \/ NextNames \/ NextExclude \/ NextDepth \/ NextOrder \/ NextSort \/ NextFormat
    \/ NextInstall \/ NextMain \/ NextTermination \/ NextRecursive
    \/ NextExtras

Spec == Init /\ [][Next]_vars
SpecNames == Init /\ [][NextNames]_vars
SpecExclude == InitWithoutSelfRequirement /\ [][NextExclude]_vars
SpecDepth == InitWithoutSelfRequirement /\ [][NextDepth]_vars
SpecOrder == InitWithoutSelfRequirement /\ [][NextOrder]_vars
SpecSort == InitWithoutSelfRequirement /\ [][NextSort]_vars
SpecFormat == InitFormat /\ [][NextFormat]_vars
SpecInstall == InitInstall /\ [][NextInstall]_vars
SpecMain == InitWithoutSelfRequirement /\ [][NextMain]_vars
SpecTermination == Init /\ [][NextTermination]_vars
SpecRecursive == InitWithoutSelfRequirement /\ [][NextRecursive]_vars
SpecExtras == InitExtras /\ [][NextExtras]_vars

(***************************************************************************)
(* The requirement graph of the registry, as the properties speak of it.   *)
(***************************************************************************)
\* The names the installed distribution `name` requires directly
DirectNames(name) == {normalize_name(r.name) : r \in installed[name].requires}

\* The names reached from `names` by zero or more requirement edges, no edge
\* entering a name of `avoid`
RECURSIVE ReachedFrom(_, _)
ReachedFrom(names, avoid) ==
    LET next == names \cup ((UNION {DirectNames(n) : n \in names}) \ avoid)
    IN  IF next = names THEN names ELSE ReachedFrom(next, avoid)

\* The names reached from `name` by one or more requirement edges
Required(name) == ReachedFrom(DirectNames(name), {})

\* The names reached from `names` by at most `hops` requirement edges
RECURSIVE WithinHops(_, _)
WithinHops(names, hops) ==
    IF hops = 0 THEN names
    ELSE WithinHops(names \cup UNION {DirectNames(n) : n \in names}, hops - 1)

\* The call of get_required_distribution_names has returned
NamesReturned == pc = "done" /\ call.op = "get_required_distribution_names"

\* The root of that call
RootName == get_requirement_string_distribution_name(call.requirement_string)

(***************************************************************************)
(* C1: with no exclusions, unbounded depth and no markers,                 *)
(* get_required_distribution_names(root) returns exactly the names reached *)
(* from the root by one or more requirement edges, other than the root.    *)
(***************************************************************************)
C1_ExactlyTheRequiredNames ==
    (NamesReturned /\ call.exclude = {} /\ call.depth = None)
        => result = Required(RootName) \ {RootName}

\* The call returned for the root of a diamond: two requirements of the root
\* require one distribution, which the root does not require directly
C1_Diamond ==
    /\ NamesReturned /\ call.exclude = {} /\ call.depth = None
    /\ \E m, n \in DirectNames(RootName) :
          /\ m # n
          /\ \E d \in DirectNames(m) \cap DirectNames(n) :
                /\ d \notin DirectNames(RootName) \cup {RootName}
                /\ result = {m, n, d}

\* The call of get_frozen_requirements has returned
FrozenReturned == pc = "done" /\ call.op = "get_frozen_requirements"

\* The canonical package name of an entry of the returned tuple
EntryName(entry) == get_requirement_string_distribution_name(entry)

\* The canonical names of the entries of the returned tuple
ResultNames == {EntryName(result[i]) : i \in 1..Len(result)}

\* The canonical names of the roots of the call
RootNames ==
    {get_requirement_string_distribution_name(call.requirements[i]) :
        i \in 1..Len(call.requirements)}

\* The roots that are given in no other form than one that is not their bare
\* name (d==4): get_frozen_requirements reports what they require, not them
RootsNotGivenByName ==
    {n \in RootNames :
        \A i \in 1..Len(call.requirements) : normalize_name(call.requirements[i]) # n}

\* The canonical names of the two exclusion arguments of the call
ShallowExcluded == {normalize_name(e) : e \in call.exclude}
RecursivelyExcluded == {normalize_name(e) : e \in call.exclude_recursive}

\* The call has one root, given as a bare package name, and nothing else
SingleBareRoot ==
    /\ FrozenReturned
    /\ Len(call.requirements) = 1 /\ call.requirements[1] \in RootStrings
    /\ call.exclude = {} /\ call.exclude_recursive = {} /\ call.depth = None

C4_RootAndWhatItRequires ==
    SingleBareRoot
        => \A root \in RootNames : ResultNames = {root} \cup Required(root)

\* C4 as claimed: exactly the packages A transitively requires, not A itself
C4_WhatTheRootRequiresOnly ==
    SingleBareRoot
        => \A root \in RootNames : ResultNames = Required(root) \ {root}

\* The call returned for the root of a diamond
C4_Diamond ==
    /\ SingleBareRoot
    /\ \E root \in RootNames : \E m, n \in DirectNames(root) :
          /\ m # n
          /\ \E d \in DirectNames(m) \cap DirectNames(n) :
                /\ d \notin DirectNames(root) \cup {root}
                /\ ResultNames = {root, m, n, d}

(***************************************************************************)
(* C5: for any roots, exclusions, ordering mode and depth (depth=0         *)
(* included) the tuple returned by get_frozen_requirements contains no     *)
(* canonical package name more than once, also when a root is supplied in  *)
(* more than one specifier form.                                           *)
(***************************************************************************)
C5_NoNameTwice ==
    FrozenReturned
        => \A i, j \in 1..Len(result) :
              i # j => EntryName(result[i]) # EntryName(result[j])

\* The call has one root, given as a bare package name, and a depth
SingleBareRootAtDepth ==
    /\ FrozenReturned
    /\ Len(call.requirements) = 1 /\ call.requirements[1] \in RootStrings
    /\ call.exclude = {} /\ call.exclude_recursive = {} /\ call.depth # None

(***************************************************************************)
(* C6: the depth argument of get_frozen_requirements bounds discovery:     *)
(* depth=n yields, as the discovered requirements of a root, exactly the   *)
(* names within n+1 requirement hops of it (chain A->B->C: depth=0 yields  *)
(* B only, depth=1 yields B and C).                                        *)
(***************************************************************************)
C6_DepthBoundsHops ==
    SingleBareRootAtDepth
        => ResultNames \ RootNames
              = WithinHops(RootNames, call.depth[1] + 1) \ RootNames

\* Where the entry of the package `name` stands in the returned tuple
Position(name) == CHOOSE i \in 1..Len(result) : EntryName(result[i]) = name

\* `dependent` requires `dependency`, directly or through other packages, and
\* `dependency` does not so require `dependent`
RequiresOneWay(dependent, dependency) ==
    /\ dependent # dependency
    /\ dependency \in Required(dependent)
    /\ dependent \notin Required(dependency)

\* The returned tuple is the reverse of what the same call returns without
\* reverse, whatever the order in which the sets are iterated
ReverseOfUnreversed ==
    \A order \in Orders :
        result = reversed(get_frozen_requirements(
                    installed, call.requirements, call.exclude, call.exclude_recursive,
                    call.no_version, call.dependency_order, FALSE, call.depth, order).value)

(***************************************************************************)
(* C7 (as amended): get_frozen_requirements with dependency_order=True and *)
(* reverse=False returns dependents before their dependencies: for every   *)
(* two output entries A and B where A requires B (directly or through      *)
(* other packages) and B does not so require A, A appears earlier than B;  *)
(* reverse=True returns the exact reverse of that sequence.                *)
(***************************************************************************)
C7_DependentsBeforeDependencies ==
    (FrozenReturned /\ call.dependency_order)
        => IF call.reverse
           THEN ReverseOfUnreversed
           ELSE \A A, B \in ResultNames :
                    RequiresOneWay(A, B) => Position(A) < Position(B)

\* C7 as claimed: with reverse=False dependencies come before their dependents
C7_DependenciesBeforeDependents ==
    (FrozenReturned /\ call.dependency_order)
        => IF call.reverse
           THEN ReverseOfUnreversed
           ELSE \A A, B \in ResultNames :
                    RequiresOneWay(A, B) => Position(B) < Position(A)

\* Both orders were returned for a chain of three: some entry stands between
\* one that requires it and one it requires
C7_ChainOfThree ==
    /\ FrozenReturned /\ call.dependency_order
    /\ \E A, B, C \in ResultNames :
          /\ RequiresOneWay(A, B) /\ RequiresOneWay(B, C)
          /\ IF call.reverse
             THEN Position(C) < Position(B) /\ Position(B) < Position(A)
             ELSE Position(A) < Position(B) /\ Position(B) < Position(C)

\* The call of _iter_sort_dependents_last has ended
SortEnded == pc = "done" /\ call.op = "_iter_sort_dependents_last"

\* The canonical names of the entries given to the sort
InputNames == {EntryName(call.requirements[i]) : i \in 1..Len(call.requirements)}

\* The requirement set of the entry `name`: what it requires, directly or
\* through other packages, other than itself
RequirementSet(name) == Required(name) \ {name}

\* Where the entry of the package `name` was given to the sort
InputPosition(name) ==
    CHOOSE i \in 1..Len(call.requirements) : EntryName(call.requirements[i]) = name

\* The two entries are in each other's requirement set
Interdependent(X, Y) == X # Y /\ Y \in RequirementSet(X) /\ X \in RequirementSet(Y)

C9_EarliestOfGroupFirst ==
    SortEnded
        => \A X, Y \in InputNames :
              ( /\ Interdependent(X, Y)
                /\ \A Z \in InputNames :
                      Interdependent(X, Z) => StrLess(lower(X), lower(Z)) )
                  => Position(X) < Position(Y)

\* The package name an entry of the returned tuple is for, as it is written
PackageName(entry) == get_requirement(entry).name

(***************************************************************************)
(* C10: with dependency_order=False, get_frozen_requirements orders its    *)
(* entries by the case-insensitive lexicographic order of their package    *)
(* names, whether or not an entry carries a ==version suffix, and          *)
(* reverse=True flips that order.                                          *)
(***************************************************************************)
C10_OrderedByPackageName ==
    (FrozenReturned /\ ~call.dependency_order)
        => \A i, j \in 1..Len(result) :
              i < j =>
                IF call.reverse
                THEN ~StrLess(lower(PackageName(result[i])), lower(PackageName(result[j])))
                ELSE ~StrLess(lower(PackageName(result[j])), lower(PackageName(result[i])))

\* The call of get_requirement_string has ended, with a string or an exception
FormatEnded == pc \in {"done", "raised"} /\ call.op = "get_requirement_string"

(***************************************************************************)
(* C11: the formatter emits the bare name for an output name exactly when  *)
(* the name matches at least one no_version glob pattern or belongs to the *)
(* fixed never-pin set, and otherwise emits name==version with the version *)
(* of that name's distribution record; for a bare-name entry the registry  *)
(* is not consulted and no install is attempted.                           *)
(***************************************************************************)
C11_BareNameOrPinned ==
    FormatEnded
        => IF \/ call.distribution_name \in _DO_NOT_PIN_DISTRIBUTION_NAMES
              \/ \E pattern \in call.no_version : fnmatch(call.distribution_name, pattern)
           THEN /\ pc = "done"
                /\ result.value = call.distribution_name
                /\ log = <<>>
           ELSE pc = "done"
                => /\ call.distribution_name \in DOMAIN installed
                   /\ result.value = installed[call.distribution_name].Name
                                        \o <<61, 61>>
                                        \o installed[call.distribution_name].version

\* A never-pinned name that is not installed was returned bare, without a
\* lookup or an install
C11_NeverPinnedAndAbsent ==
    /\ FormatEnded
    /\ call.distribution_name \in _DO_NOT_PIN_DISTRIBUTION_NAMES
    /\ call.distribution_name \notin DOMAIN installed
    /\ call.no_version = {}
    /\ result.value = call.distribution_name
    /\ log = <<>>

\* The orders in which the roots of the call can be supplied
Reorderings(requirements) ==
    {q \in [1..Len(requirements) -> {requirements[i] : i \in 1..Len(requirements)}] :
        \A i \in 1..Len(requirements) : \E j \in 1..Len(requirements) : q[j] = requirements[i]}

(***************************************************************************)
(* C12: for a fixed registry and fixed argument values,                    *)
(* get_frozen_requirements returns the same sequence whatever the order in *)
(* which the roots are supplied and whatever the iteration order of the    *)
(* internal sets, in both ordering modes and for every depth (depth=0      *)
(* included).                                                              *)
(***************************************************************************)
C12_SameSequenceInAnyOrder ==
    FrozenReturned
        => \A requirements \in Reorderings(call.requirements), order \in Orders :
              get_frozen_requirements(
                  installed, requirements, call.exclude, call.exclude_recursive,
                  call.no_version, call.dependency_order, call.reverse, call.depth,
                  order).value = result

\* A closure entry point has returned or raised
ClosureCallEnded ==
    /\ pc \in {"done", "raised"}
    /\ call.op \in {"get_required_distribution_names",
                    "get_requirements_required_distribution_names"}

\* The names pip was asked to install and that a later lookup did not find
UnresolvedAfterInstall ==
    {log[i][2] : i \in {j \in 1..Len(log) :
        /\ log[j][1] = "install"
        /\ \E k \in (j + 1)..Len(log) :
              log[k] = <<"lookup", log[j][2], FALSE>>}}

(***************************************************************************)
(* C13: when a dependency is still not in the registry after the install   *)
(* attempt, the closure entry point raises: it does not return a result    *)
(* from which the unresolved package, or the root that reached it, has     *)
(* been dropped.                                                           *)
(***************************************************************************)
C13_UnresolvedIsRaised ==
    ClosureCallEnded /\ UnresolvedAfterInstall # {} => pc = "raised"

MainPrinted == pc = "done" /\ call.op = "main"

(***************************************************************************)
(* C14: run with --reverse, the command line prints the entries it prints  *)
(* without --reverse in exactly the opposite order (the reverse flag, like *)
(* every other flag main parses, is passed on to freeze).                  *)
(***************************************************************************)
C14_ReversePrintsOppositeOrder ==
    MainPrinted /\ call.namespace.reverse
        => result = reversed(main(installed,
                                  [call.namespace EXCEPT !.reverse = FALSE],
                                  call.order).value)

\* The entries of `remaining` that the one-at-a-time rule may emit: each
\* requirement still remaining requires the entry back
Eligible(remaining) ==
    {name \in remaining :
        \A dependency \in RequirementSet(name) \cap remaining :
            name \in RequirementSet(dependency)}

\* The one-at-a-time rule: emit the alphabetically first eligible entry, then
\* select again among what remains
RECURSIVE OneAtATime(_)
OneAtATime(remaining) ==
    IF Eligible(remaining) = {} THEN <<>>
    ELSE LET first == CHOOSE name \in Eligible(remaining) :
                          \A other \in Eligible(remaining) \ {name} :
                              StrLess(lower(name), lower(other))
         IN  <<first>> \o OneAtATime(remaining \ {first})

(***************************************************************************)
(* C15: for every input, the sequence yielded by _iter_sort_dependents_last*)
(* is the sequence of the one-at-a-time rule: among the entries not yet    *)
(* emitted pick the alphabetically first one whose remaining requirements  *)
(* are all emitted or mutually cyclic with it, emit it, and start the      *)
(* selection again from the remaining set.                                 *)
(***************************************************************************)
C15_YieldsAsOneAtATime ==
    SortEnded
        => [i \in 1..Len(result) |-> EntryName(result[i])] = OneAtATime(InputNames)

\* _iter_sort_dependents_last was called: it ended or it runs for ever
SortCalled == pc # "idle" /\ call.op = "_iter_sort_dependents_last"

(***************************************************************************)
(* C16: for an input whose requirement sets are the transitive requirement *)
(* sets of the registry (cycles of any length included), every pass of the *)
(* while loop of _iter_sort_dependents_last yields at least one entry, and *)
(* the loop ends having yielded every entry once.  (A pass that yields     *)
(* nothing leaves the dict as it was: the call is then at "hang".)         *)
(***************************************************************************)
C16_EveryPassYields ==
    SortCalled
        => /\ pc = "done"
           /\ ResultNames = InputNames
           /\ Len(result) = Cardinality(InputNames)

\* The sort ended in more than one pass for four entries, three of them
\* requiring each other round a cycle of length three
C16_CycleOfThreeAndADependent ==
    /\ SortEnded
    /\ Len(result) = 4
    /\ Len(_iter_sort_dependents_last(installed, call.requirements).passes) > 1
    /\ \E X, Y, Z \in InputNames :
          /\ X # Y /\ Y # Z /\ X # Z
          /\ DirectNames(X) = {Y} /\ DirectNames(Y) = {Z} /\ DirectNames(Z) = {X}

\* get_required_distribution_names was called
NamesCalled == pc # "idle" /\ call.op = "get_required_distribution_names"

(***************************************************************************)
(* C17: the closure traversal of get_required_distribution_names           *)
(* terminates on every finite requirement graph, self-requirements and     *)
(* cycles of any length included, for unbounded depth and for every depth: *)
(* the call returns, no chain of nested calls growing without end          *)
(* (RecursionError).                                                       *)
(***************************************************************************)
C17_TraversalReturns ==
    NamesCalled => pc = "done"

\* The traversal returned, at unbounded depth, from a root that requires
\* itself and lies on a cycle of length three
C17_SelfRequirementOnACycleOfThree ==
    /\ NamesReturned
    /\ call.depth = None
    /\ RootName \in DirectNames(RootName)
    /\ \E Y, Z \in DOMAIN installed :
          /\ RootName # Y /\ Y # Z /\ RootName # Z
          /\ Y \in DirectNames(RootName) /\ Z \in DirectNames(Y)
          /\ RootName \in DirectNames(Z)
          /\ result = {Y, Z}

(***************************************************************************)
(* C18: get_required_distribution_names(root, depth=n) with n >= 0 returns *)
(* exactly the names within n+1 requirement hops of the root: depth 0 the  *)
(* direct requirements only, and each further unit of depth one more level *)
(* (on the chain A->B->C->D, depth=2 returns B, C and D).                  *)
(***************************************************************************)
C18_DepthCountsHops ==
    NamesReturned /\ call.depth # None
        => result = WithinHops({RootName}, call.depth[1] + 1) \ {RootName}

\* The expansions of `name` in the call: its record was found in the registry
\* (and its requirements were then enumerated)
Expansions(name) ==
    {i \in 1..Len(log) : log[i][1] = "lookup" /\ log[i][2] = name /\ log[i][3]}

(***************************************************************************)
(* C19: within one closure computation each name is expanded (its record   *)
(* requested from the registry and its requirements enumerated) at most    *)
(* once, also when it is reached through several paths: in the diamond     *)
(* A->{B,C}, B->{D}, C->{D}, D is expanded once.                           *)
(***************************************************************************)
C19_ExpandedAtMostOnce ==
    NamesCalled => \A name \in DistributionNames : Cardinality(Expansions(name)) <= 1

\* Where in the log pip was asked to install a distribution
Installs == {j \in 1..Len(log) : log[j][1] = "install"}

(***************************************************************************)
(* C20: an install of a package is attempted only after a registry lookup  *)
(* of that name has failed; the lookup is retried once after the install;  *)
(* a second failure raises instead of installing again; and within one     *)
(* closure call no name has an install attempted more than once.           *)
(***************************************************************************)
C20_InstalledOnceAfterAFailedLookup ==
    ClosureCallEnded
        => \A j \in Installs :
              /\ j > 1 /\ log[j - 1] = <<"lookup", log[j][2], FALSE>>
              /\ j < Len(log) => log[j + 1][1] = "lookup" /\ log[j + 1][2] = log[j][2]
              /\ j + 1 < Len(log) => log[j + 2] # log[j]
              /\ \A k \in Installs : log[k][2] = log[j][2] => k = j

\* The names the registry was asked about, or pip was asked to install
NamesAskedFor ==
    {log[i][2] : i \in {j \in 1..Len(log) : log[j][1] \in {"lookup", "install"}}}

FrozenCalled == pc # "idle" /\ call.op = "get_frozen_requirements"

(***************************************************************************)
(* C21: during a get_frozen_requirements call, in either ordering mode,    *)
(* the registry is never asked for the record of a name of the             *)
(* recursive-exclude set, and the name is never installed, in the closure  *)
(* step, the formatting step and the ordering step alike.                  *)
(***************************************************************************)
C21_ExcludedNeverAskedFor ==
    FrozenCalled => NamesAskedFor \cap RecursivelyExcluded = {}

\* The requirements of the installed distribution `name` that apply when the
\* extras `extras` are active
Applying(name, extras) ==
    {r \in installed[name].requires : r.marker = None \/ r.marker \in extras}

\* The <<name, extras>> that some requirement path reaches from those of
\* `reached`, each requirement on the path applying under the extras with
\* which its distribution was reached
RECURSIVE ReachedWithExtras(_)
ReachedWithExtras(reached) ==
    LET next == reached \cup
                UNION { {<<normalize_name(r.name), r.extras>> : r \in Applying(pair[1], pair[2])}
                        : pair \in reached }
    IN  IF next = reached THEN reached ELSE ReachedWithExtras(next)

(***************************************************************************)
(* C22: if some requirement path from the root reaches a package with an   *)
(* extra active, every requirement of that package guarded by the extra is *)
(* in the closure, also when the package is reached without the extra on   *)
(* another path or is a sibling requirement of an ancestor (A->{B, C},     *)
(* B->{C[x]}, C requires D only under x: D is in the closure of A).        *)
(***************************************************************************)
C22_GuardedRequirementsOfActiveExtras ==
    NamesReturned
        => \A pair \in ReachedWithExtras({<<RootName, {}>>}) :
              \A r \in Applying(pair[1], pair[2]) :
                  normalize_name(r.name) # RootName => normalize_name(r.name) \in result

\* The depths below the depth of the call: the smaller integers, and every
\* integer below None
ShallowerDepths ==
    IF call.depth = None THEN {Some(n) : n \in 0..MaxDepth}
    ELSE {Some(n) : n \in 0..(call.depth[1] - 1)}

\* The package names get_frozen_requirements returns for the arguments of the
\* call with the depth `depth`
NamesAtDepth(depth, order) ==
    Only({ {EntryName(entries[i]) : i \in 1..Len(entries)}
           : entries \in {get_frozen_requirements(
                 installed, call.requirements, call.exclude, call.exclude_recursive,
                 call.no_version, call.dependency_order, call.reverse, depth,
                 order).value} })

(***************************************************************************)
(* C23: the set of package names get_frozen_requirements returns is        *)
(* monotone in depth: the names returned with depth=d1 are among those     *)
(* returned with depth=d2 whenever 0 <= d1 < d2, and the names returned    *)
(* with any integer depth are among those returned with depth=None.        *)
(***************************************************************************)
C23_MonotoneInDepth ==
    FrozenReturned
        => \A depth \in ShallowerDepths, order \in Orders :
              NamesAtDepth(depth, order) \subseteq ResultNames

\* Whether the two sequences hold the same entries the same number of times
IsPermutation(left, right) ==
    /\ Len(left) = Len(right)
    /\ \A entry \in {left[i] : i \in 1..Len(left)} \cup {right[i] : i \in 1..Len(right)} :
          Cardinality({i \in 1..Len(left) : left[i] = entry})
              = Cardinality({i \in 1..Len(right) : right[i] = entry})

(***************************************************************************)
(* C24: ordering neither adds nor drops entries: for the same roots,       *)
(* exclusions and depth (depth=0 included, where the root specifiers       *)
(* themselves are ordered), the sequence returned with                     *)
(* dependency_order=True is a permutation of the sequence returned with    *)
(* dependency_order=False.                                                 *)
(***************************************************************************)
C24_OrderingPermutes ==
    FrozenReturned /\ call.dependency_order
        => \A order \in Orders :
              IsPermutation(
                  result,
                  get_frozen_requirements(
                      installed, call.requirements, call.exclude, call.exclude_recursive,
                      call.no_version, FALSE, call.reverse, call.depth, order).value)

====
